---- MODULE Spec2Model ----
(***************************************************************************)
(* Model of the Telegram PNBA adapter (adapter.py): the SessionRegistry    *)
(* (a per-phone-number directory holding the client-session artifact and   *)
(* registry.json) and the five TelegramPNBAAdapter operations, each cut at *)
(* its awaits.  The external client library is not part of the repository: *)
(* every awaited call either returns or raises, chosen nondeterministically*)
(* among the outcomes its call site handles.                               *)
(***************************************************************************)
EXTENDS Naturals, FiniteSets, Sequences, TLC

VARIABLES
    fs,        \* the sessions tree: directory name -> NoDir or its two files
    adapter,   \* TelegramPNBAAdapter fields: session_path, client
    clients,   \* the TelegramClient object each task constructed
    tasks,     \* one coroutine per task: its operation, locals and position
    reg,       \* a SessionRegistry object held by a direct user of the class
    sent,      \* history: token stored by the last send-code on a phone number
    regcall,   \* history: the last method call on reg
    writers,   \* processes that call update() on registry objects of their own
    state      \* InteractiveApp.state: phone, authenticated (and history)

vars ==
    <<fs, adapter, clients, tasks, reg, sent, regcall, writers, state>>

---------------------------------------------------------------------------
(* Inputs *)

\* Phone numbers are not validated; the empty string is an accepted input.
Phones == {"", "+15551234567"}

\* phone_code_hash values the service may issue.
Hashes == {"h1", "h2"}

\* first_name values of the fetched profile.
Names == {"Ada", "Bob"}

\* Python None.
None == "None"

\* Keys and values a caller stores in the registry record.
Keys == {"phone_code_hash", "note"}

KeyValues(k) == IF k = "phone_code_hash" THEN Hashes ELSE {"x", None}

TaskIds == {"t1", "t2"}

\* The task that runs the operations invoked one at a time.
SeqTasks == {"t1"}

Ops == {"send_authorization_code", "validate_code_and_fetch_user_info",
        "validate_password_and_fetch_user_info", "invalidate_session",
        "send_message"}

---------------------------------------------------------------------------
(* Python dicts and their JSON text *)

EmptyDict == [k \in {} |-> None]

Dicts == UNION {[D -> Hashes \cup {"x", None}] : D \in SUBSET Keys}

Records == {d \in Dicts : \A k \in DOMAIN d : d[k] \in KeyValues(k)}

\* dict.get(k): None when the key is missing.
DictGet(d, k) == IF k \in DOMAIN d THEN d[k] ELSE None

\* Mutant: a key already present keeps its value.
DictUpdate_KeepOld(d, kwargs) ==
    [k \in (DOMAIN d) \cup (DOMAIN kwargs) |->
        IF k \in DOMAIN d THEN d[k] ELSE kwargs[k]]

\* dict.update(kwargs): the keys of kwargs override.
DictUpdate(d, kwargs) ==
    [k \in (DOMAIN d) \cup (DOMAIN kwargs) |->
        IF k \in DOMAIN kwargs THEN kwargs[k] ELSE d[k]]

PyValues == Hashes \cup {"x", None}

\* json.dump of a value: None becomes null, a string is quoted.
JsonValue(v) == IF v = None THEN "null" ELSE "\"" \o v \o "\""

\* json.dump of a dict with string keys.
JsonDump(data) == [k \in DOMAIN data |-> JsonValue(data[k])]

\* json.load: the inverse of JsonValue on each member.
JsonLoad(text) ==
    [k \in DOMAIN text |-> CHOOSE v \in PyValues : JsonValue(v) = text[k]]

---------------------------------------------------------------------------
(* The sessions tree *)

\* A file that does not exist: the session file by name, registry.json as
\* the empty sequence (<<text>> when it exists).
NoFile == "NoFile"

\* A directory that does not exist.
NoDir == [isdir |-> FALSE, session |-> NoFile, registry |-> <<>>]

\* Mutant: the directory name does not depend on the phone number.
Md5_Constant(phone_number) == "d41d8cd98f00b204e9800998ecf8427e"

\* hashlib.md5(phone_number).hexdigest(), on the phone numbers of the model.
Md5(phone_number) ==
    CASE phone_number = "" -> "d41d8cd98f00b204e9800998ecf8427e"
      [] phone_number = "+15551234567" -> "dd065fdf4469ee22b6bb8b76408fa030"

DirNames == {Md5(p) : p \in Phones}

\* A directory just made by os.makedirs.
EmptyDir == [isdir |-> TRUE, session |-> NoFile, registry |-> <<>>]

\* bool(x) of a str.
Truthy(s) == s # ""

\* Mutant: only registry.json is removed, the directory stays.
Rmtree_RegistryOnly(f, session_dir) ==
    [f EXCEPT ![session_dir].registry = <<>>]

\* shutil.rmtree(session_dir)
Rmtree(f, session_dir) == [f EXCEPT ![session_dir] = NoDir]

\* os.path.isdir(session_dir)
IsDir(f, session_dir) == f[session_dir].isdir

\* os.makedirs(session_dir, exist_ok=True)
Makedirs(f, session_dir) ==
    IF ~IsDir(f, session_dir) THEN [f EXCEPT ![session_dir] = EmptyDir] ELSE f

\* Mutant: overwrite is ignored, an existing directory is always reused.
GetOrCreateSessionPath_NoOverwrite(f, phone_number, overwrite) ==
    Makedirs(f, Md5(phone_number))

\* Mutant: an existing directory is always removed first.
GetOrCreateSessionPath_AlwaysOverwrite(f, phone_number, overwrite) ==
    Makedirs(Rmtree(f, Md5(phone_number)), Md5(phone_number))

\* SessionRegistry.get_or_create_session_path: the tree afterwards. The
\* returned path is Md5(phone_number) under the base path.
GetOrCreateSessionPath(f, phone_number, overwrite) ==
    LET session_dir == Md5(phone_number)
        g == IF overwrite /\ IsDir(f, session_dir)
             THEN Rmtree(f, session_dir)
             ELSE f
    IN  Makedirs(g, session_dir)

\* SessionRegistry.__init__: the tree afterwards. The phone number is handed
\* to get_or_create_session_path as its first positional argument, overwrite.
SessionRegistryInit(f, phone_number) ==
    GetOrCreateSessionPath(f, phone_number, Truthy(phone_number))

\* The SessionRegistry object: its session_dir (registry_path is
\* session_dir/registry.json, get_session_file_path() is session_dir/<md5>).
SessionRegistry(phone_number) ==
    [phone_number |-> phone_number, session_dir |-> Md5(phone_number)]

\* os.path.exists(self.registry_path)
RegistryExists(f, r) ==
    /\ IsDir(f, r.session_dir)
    /\ f[r.session_dir].registry # <<>>

\* SessionRegistry.read
RegistryRead(f, r) ==
    IF ~RegistryExists(f, r) THEN EmptyDict
    ELSE JsonLoad(f[r.session_dir].registry[1])

\* SessionRegistry.write: open(registry_path, "w") needs the directory.
CanWrite(f, r) == IsDir(f, r.session_dir)

\* Mutant: the file is opened for update and the new members are merged into
\* the stored ones.
RegistryWrite_Merge(f, r, data) ==
    [f EXCEPT ![r.session_dir].registry =
        <<JsonDump([k \in (DOMAIN RegistryRead(f, r)) \cup (DOMAIN data) |->
                      IF k \in DOMAIN data THEN data[k]
                      ELSE RegistryRead(f, r)[k]])>>]

RegistryWrite(f, r, data) ==
    [f EXCEPT ![r.session_dir].registry = <<JsonDump(data)>>]

\* SessionRegistry.update
RegistryUpdate(f, r, kwargs) ==
    RegistryWrite(f, r, DictUpdate(RegistryRead(f, r), kwargs))

\* Mutant: the registry file is left in place.
RegistryClear_Keep(f, r) == f

\* SessionRegistry.clear: the tree afterwards.
RegistryClear(f, r) ==
    IF RegistryExists(f, r)
    THEN [f EXCEPT ![r.session_dir].registry = <<>>]
    ELSE f

\* TelegramClient(session=session_file): the session file is created when it
\* does not exist; an existing one is opened as it is.
OpenSession(f, session_dir) ==
    IF IsDir(f, session_dir) /\ f[session_dir].session = NoFile
    THEN [f EXCEPT ![session_dir].session = "unauthorized"]
    ELSE f

---------------------------------------------------------------------------
(* Results *)

NoOutcome == [kind |-> "none", value |-> None]
Return(v) == [kind |-> "return", value |-> v]
Raise(e) == [kind |-> "raise", value |-> e]

\* Errors of the external client other than the distinguished one.
Errors == {"RPCError"}
SessionPasswordNeededError == "SessionPasswordNeededError"

AlreadyAuthorized ==
    [success |-> FALSE, message |-> "User is already authorized."]

CodeSent ==
    [success |-> TRUE,
     message |-> "Authorization code sent. Check your Telegram app."]

UserInfo(phone_number, name) ==
    [account_identifier |-> phone_number, name |-> name]

\* Mutant: no except clause, SessionPasswordNeededError propagates.
ValidateCodeExcept_Propagate(phone_number, e) == Raise(e)

\* validate_code_and_fetch_user_info: what an exception raised inside its try
\* block becomes (the except SessionPasswordNeededError clause).
ValidateCodeExcept(phone_number, e) ==
    IF e = SessionPasswordNeededError
    THEN Return([two_step_verification_enabled |-> TRUE,
                 userinfo |-> UserInfo(phone_number, None)])
    ELSE Raise(e)

---------------------------------------------------------------------------
(* State *)

NoRegistry == [phone_number |-> None, session_dir |-> None]

Unset == "Unset"

\* A task that runs nothing. Besides the coroutine's locals (registry,
\* phone_code_hash, result) and the outcome its finally block is holding, a
\* task records what it saw and did: pre (the directory before the call),
\* pre_sent (the token the last send-code stored, when nothing touched the
\* phone number since), found (the session file the client constructor found),
\* answer (what is_user_authorized() answered), code_requested, signin_hash
\* (the phone_code_hash given to sign_in), error (what an external call
\* raised), failed_at (the await that raised it) and cleared
\* (registry.clear() ran) and removed (the path shutil.rmtree was given).
\* target is the client object the pending call
\* was issued on: self.client as it was when the call expression was
\* evaluated, which is when the previous await completed.
IdleTask ==
    [op |-> None, phone_number |-> None, pc |-> "idle", target |-> None,
     registry |-> NoRegistry, phone_code_hash |-> None, result |-> None,
     outcome |-> NoOutcome,
     pre |-> NoDir, pre_sent |-> None, found |-> NoFile,
     answer |-> Unset, code_requested |-> FALSE, signin_hash |-> Unset,
     error |-> None, failed_at |-> None,
     cleared |-> FALSE, removed |-> None]

NoClient == [session_dir |-> None, connected |-> FALSE]

\* A method call on reg: its argument, what it returned or raised, and the
\* directory as it was before the call.
MethodCall(op, arg, ret, raised, pre) ==
    [op |-> op, arg |-> arg, ret |-> ret, raised |-> raised, pre |-> pre]

\* No method of reg has been called since another operation ran.
NoCall == MethodCall(None, None, None, None, NoDir)

\* A process that is not using the registry.
IdleWriter ==
    [pc |-> "idle", registry |-> NoRegistry, kwargs |-> EmptyDict,
     data |-> EmptyDict, raised |-> None, stale |-> FALSE]

Writers == {"w1", "w2"}

\* No operation has returned to the interactive application.
NoRun == [op |-> None, outcome |-> NoOutcome]

Init ==
    /\ fs = [d \in DirNames |-> NoDir]
    /\ adapter = [session_path |-> None, client |-> None]
    /\ clients = [t \in TaskIds |-> NoClient]
    /\ tasks = [t \in TaskIds |-> IdleTask]
    /\ reg = NoRegistry
    /\ sent = [p \in Phones |-> None]
    /\ regcall = NoCall
    /\ writers = [w \in Writers |-> IdleWriter]
    /\ state = [phone |-> None, authenticated |-> FALSE,
                granted |-> NoRun, last |-> NoRun]

Running(t) == tasks[t].pc # "idle"

NoneRunning == \A t \in TaskIds : ~Running(t)

\* The session directory of the client t's pending call was issued on.
ClientDir(t) == clients[tasks[t].target].session_dir

---------------------------------------------------------------------------
(* TelegramPNBAAdapter *)

\* TelegramPNBAAdapter.__init__: a new adapter object; the clients of the
\* adapter it replaces are out of reach.
NewAdapter ==
    /\ NoneRunning
    /\ adapter # [session_path |-> None, client |-> None]
    /\ adapter' = [session_path |-> None, client |-> None]
    /\ clients' = [t \in TaskIds |-> NoClient]
    /\ UNCHANGED <<fs, tasks, reg, sent, regcall, writers, state>>

\* Mutant: send_authorization_code resolves the session path with the
\* default overwrite=False.
Overwrite_Never(op) == FALSE

\* get_or_create_session_path(True) in send_authorization_code, the default
\* overwrite=False in the four other operations.
Overwrite(op) == op = "send_authorization_code"

\* The first await target after connect().
AfterConnect(op) ==
    CASE op = "send_authorization_code" -> "is_user_authorized"
      [] op = "validate_code_and_fetch_user_info" -> "sign_in"
      [] op = "validate_password_and_fetch_user_info" -> "sign_in"
      [] op = "invalidate_session" -> "log_out"
      [] op = "send_message" -> "send_message"

\* The operations that read phone_code_hash from the registry before the try.
ReadsHash(op) ==
    op \in {"validate_code_and_fetch_user_info",
            "validate_password_and_fetch_user_info"}

\* An operation up to its first await: the SessionRegistry is constructed,
\* the session path resolved, the client constructed on the session file and
\* (validate operations) phone_code_hash read from the registry.
Call(t, op, phone_number) ==
    /\ ~Running(t)
    /\ LET registry == SessionRegistry(phone_number)
           f1 == SessionRegistryInit(fs, phone_number)
           f2 == GetOrCreateSessionPath(f1, phone_number, Overwrite(op))
           f3 == OpenSession(f2, registry.session_dir)
       IN  /\ fs' = f3
           /\ adapter' = [session_path |-> registry.session_dir, client |-> t]
           /\ clients' = [clients EXCEPT ![t] =
                  [session_dir |-> registry.session_dir, connected |-> FALSE]]
           /\ tasks' = [tasks EXCEPT ![t] =
                  [IdleTask EXCEPT
                     !.op = op,
                     !.phone_number = phone_number,
                     !.pc = "connect",
                     !.target = t,
                     !.registry = registry,
                     !.phone_code_hash =
                         IF ReadsHash(op)
                         THEN DictGet(RegistryRead(f3, registry),
                                      "phone_code_hash")
                         ELSE None,
                     !.pre = fs[registry.session_dir],
                     !.pre_sent = sent[phone_number],
                     !.found = f2[registry.session_dir].session]]
           /\ sent' = [sent EXCEPT ![phone_number] = None]
    /\ regcall' = NoCall
    /\ UNCHANGED <<reg, writers, state>>

\* finally: await self.client.disconnect(); then the held outcome reaches
\* the caller.
Disconnect(t) ==
    /\ tasks[t].pc = "disconnect"
    /\ clients' = [clients EXCEPT ![tasks[t].target].connected = FALSE]
    /\ tasks' = [tasks EXCEPT ![t].pc = "done"]
    /\ UNCHANGED <<fs, adapter, reg, sent, regcall, writers, state>>

\* The caller has the outcome of the finished coroutine.
Finish(t) ==
    /\ tasks[t].pc = "done"
    /\ tasks' = [tasks EXCEPT ![t] = IdleTask]
    /\ UNCHANGED <<fs, adapter, clients, reg, sent, regcall, writers, state>>

\* Mutant: an except clause that turns every other error into a False result.
Except_ReturnFalse(task, e) ==
    IF task.op = "validate_code_and_fetch_user_info"
    THEN ValidateCodeExcept(task.phone_number, e)
    ELSE Return(FALSE)

\* Mutant: every operation has validate-code's except clause.
Except_CatchSecondFactor(task, e) ==
    ValidateCodeExcept(task.phone_number, e)

\* What an exception raised in the try block of the operation becomes.
Except(task, e) ==
    IF task.op = "validate_code_and_fetch_user_info"
    THEN ValidateCodeExcept(task.phone_number, e)
    ELSE Raise(e)

\* Mutant: no finally block, the outcome reaches the caller at once.
Failed_NoFinally(task, e) ==
    [task EXCEPT !.pc = "done", !.error = e, !.failed_at = task.pc,
                 !.outcome = Except(task, e)]

\* The task after an external call raised e: the try block is left for the
\* finally block.
Failed(task, e) ==
    [task EXCEPT !.pc = "disconnect", !.target = adapter.client,
                 !.error = e, !.failed_at = task.pc,
                 !.outcome = Except(task, e)]

\* await self.client.connect()
Connect(t) ==
    /\ tasks[t].pc = "connect"
    /\ \/ /\ clients' = [clients EXCEPT ![tasks[t].target].connected = TRUE]
          /\ tasks' = [tasks EXCEPT ![t].pc = AfterConnect(tasks[t].op),
                                    ![t].target = adapter.client]
       \/ /\ \E e \in Errors : tasks' = [tasks EXCEPT ![t] = Failed(@, e)]
          /\ UNCHANGED clients
    /\ UNCHANGED <<fs, adapter, reg, sent, regcall, writers, state>>

\* What is_user_authorized() may answer: True when the session file the
\* client is opened on holds an authorized session; the service decides
\* otherwise.
IsUserAuthorizedAnswers(f, session_dir) ==
    IF IsDir(f, session_dir) /\ f[session_dir].session = "authorized"
    THEN {TRUE}
    ELSE BOOLEAN

\* if await self.client.is_user_authorized(): return {"success": False, ...}
IsUserAuthorized(t) ==
    /\ tasks[t].pc = "is_user_authorized"
    /\ \/ \E b \in IsUserAuthorizedAnswers(fs, ClientDir(t)) :
             tasks' = [tasks EXCEPT ![t] =
                 IF b
                 THEN [@ EXCEPT !.pc = "disconnect", !.target = adapter.client,
                                !.answer = "True",
                                !.outcome = Return(AlreadyAuthorized)]
                 ELSE [@ EXCEPT !.pc = "send_code_request",
                                !.target = adapter.client,
                                !.answer = "False"]]
       \/ \E e \in Errors : tasks' = [tasks EXCEPT ![t] = Failed(@, e)]
    /\ UNCHANGED <<fs, adapter, clients, reg, sent, regcall, writers, state>>

\* result = await self.client.send_code_request(phone=phone_number)
\* registry.update(phone_code_hash=result.phone_code_hash); return success
SendCodeRequest(t) ==
    /\ tasks[t].pc = "send_code_request"
    /\ \/ \E h \in Hashes :
            LET kwargs == [k \in {"phone_code_hash"} |-> h]
            IN  IF CanWrite(fs, tasks[t].registry)
                THEN /\ fs' = RegistryUpdate(fs, tasks[t].registry, kwargs)
                     /\ tasks' = [tasks EXCEPT ![t] =
                           [@ EXCEPT !.pc = "disconnect",
                                     !.target = adapter.client,
                                     !.code_requested = TRUE,
                                     !.result = h,
                                     !.outcome = Return(CodeSent)]]
                     /\ sent' = [sent EXCEPT ![tasks[t].phone_number] = h]
                ELSE /\ tasks' = [tasks EXCEPT ![t] =
                           [Failed(@, "FileNotFoundError") EXCEPT
                                     !.code_requested = TRUE,
                                     !.result = h]]
                     /\ UNCHANGED <<fs, sent>>
       \/ /\ \E e \in Errors :
               tasks' = [tasks EXCEPT ![t] =
                   [Failed(@, e) EXCEPT !.code_requested = TRUE]]
          /\ UNCHANGED <<fs, sent>>
    /\ UNCHANGED <<adapter, clients, reg, regcall, writers, state>>

\* The session file after a sign_in that succeeded on the client opened on it.
Authorize(f, session_dir) ==
    IF IsDir(f, session_dir) /\ f[session_dir].session # NoFile
    THEN [f EXCEPT ![session_dir].session = "authorized"]
    ELSE f

\* await self.client.sign_in(phone=..., phone_code_hash=phone_code_hash,
\* code=code) and sign_in(password=..., phone_code_hash=phone_code_hash)
SignIn(t) ==
    /\ tasks[t].pc = "sign_in"
    /\ \/ /\ fs' = Authorize(fs, ClientDir(t))
          /\ tasks' = [tasks EXCEPT ![t] =
                [@ EXCEPT !.pc = "get_me", !.target = adapter.client,
                          !.signin_hash = tasks[t].phone_code_hash]]
       \/ /\ \E e \in Errors \cup {SessionPasswordNeededError} :
               tasks' = [tasks EXCEPT ![t] =
                   [Failed(@, e) EXCEPT
                          !.signin_hash = tasks[t].phone_code_hash]]
          /\ UNCHANGED fs
    /\ UNCHANGED <<adapter, clients, reg, sent, regcall, writers, state>>

\* The value returned after get_me() and registry.clear().
Authenticated(op, phone_number, first_name) ==
    IF op = "validate_code_and_fetch_user_info"
    THEN [two_step_verification_enabled |-> FALSE,
          userinfo |-> UserInfo(phone_number, first_name)]
    ELSE [userinfo |-> UserInfo(phone_number, first_name)]

\* result = await self.client.get_me(); registry.clear(); return {...}
GetMe(t) ==
    /\ tasks[t].pc = "get_me"
    /\ \/ /\ \E first_name \in Names :
               tasks' = [tasks EXCEPT ![t] =
                   [@ EXCEPT !.pc = "disconnect", !.target = adapter.client,
                             !.result = first_name,
                             !.cleared = TRUE,
                             !.outcome = Return(Authenticated(
                                 tasks[t].op, tasks[t].phone_number,
                                 first_name))]]
          /\ fs' = RegistryClear(fs, tasks[t].registry)
       \/ /\ \E e \in Errors : tasks' = [tasks EXCEPT ![t] = Failed(@, e)]
          /\ UNCHANGED fs
    /\ UNCHANGED <<adapter, clients, reg, sent, regcall, writers, state>>

\* Mutant: the directory is removed in the finally block, also when
\* log_out() raised.
LogOut_RmtreeAlways(t) ==
    /\ tasks[t].pc = "log_out"
    /\ fs' = Rmtree(fs, adapter.session_path)
    /\ \/ tasks' = [tasks EXCEPT ![t] =
              [@ EXCEPT !.pc = "disconnect", !.target = adapter.client,
                        !.removed = adapter.session_path,
                        !.outcome = Return(TRUE)]]
       \/ \E e \in Errors :
             tasks' = [tasks EXCEPT ![t] =
                 [Failed(@, e) EXCEPT !.removed = adapter.session_path]]
    /\ UNCHANGED <<adapter, clients, reg, sent, regcall, writers, state>>

\* await self.client.log_out()
\* shutil.rmtree(self.session_path, ignore_errors=True); return True
LogOut(t) ==
    /\ tasks[t].pc = "log_out"
    /\ \/ /\ fs' = Rmtree(fs, adapter.session_path)
          /\ tasks' = [tasks EXCEPT ![t] =
                [@ EXCEPT !.pc = "disconnect", !.target = adapter.client,
                          !.removed = adapter.session_path,
                          !.outcome = Return(TRUE)]]
       \/ /\ \E e \in Errors : tasks' = [tasks EXCEPT ![t] = Failed(@, e)]
          /\ UNCHANGED fs
    /\ UNCHANGED <<adapter, clients, reg, sent, regcall, writers, state>>

\* await self.client.send_message(recipient, message); return True
SendMessage(t) ==
    /\ tasks[t].pc = "send_message"
    /\ \/ tasks' = [tasks EXCEPT ![t] =
              [@ EXCEPT !.pc = "disconnect", !.target = adapter.client,
                        !.outcome = Return(TRUE)]]
       \/ \E e \in Errors : tasks' = [tasks EXCEPT ![t] = Failed(@, e)]
    /\ UNCHANGED <<fs, adapter, clients, reg, sent, regcall, writers, state>>

\* One step of a running coroutine, from one await to the next.
Resume(t) ==
    \/ Connect(t)
    \/ IsUserAuthorized(t)
    \/ SendCodeRequest(t)
    \/ SignIn(t)
    \/ GetMe(t)
    \/ LogOut(t)
    \/ SendMessage(t)
    \/ Disconnect(t)

Step(t) == Resume(t) \/ Finish(t)

---------------------------------------------------------------------------
(* SessionRegistry used directly *)

\* registry = SessionRegistry(phone_number)
NewRegistry(phone_number) ==
    /\ fs' = SessionRegistryInit(fs, phone_number)
    /\ reg' = SessionRegistry(phone_number)
    /\ sent' = [sent EXCEPT ![phone_number] = None]
    /\ regcall' = NoCall
    /\ UNCHANGED <<adapter, clients, tasks, writers, state>>

\* registry.get_or_create_session_path(overwrite)
GetOrCreateCall(overwrite) ==
    /\ reg # NoRegistry
    /\ fs' = GetOrCreateSessionPath(fs, reg.phone_number, overwrite)
    /\ sent' = [sent EXCEPT ![reg.phone_number] = None]
    /\ regcall' = (MethodCall("get_or_create_session_path", overwrite,
                                    Md5(reg.phone_number), None,
                                    fs[reg.session_dir]))
    /\ UNCHANGED <<adapter, clients, tasks, reg, writers, state>>

\* registry.write(data): FileNotFoundError when the directory is gone.
WriteCall(data) ==
    /\ reg # NoRegistry
    /\ fs' = IF CanWrite(fs, reg) THEN RegistryWrite(fs, reg, data) ELSE fs
    /\ sent' = [sent EXCEPT ![reg.phone_number] = None]
    /\ regcall' = (MethodCall("write", data, None,
                     IF CanWrite(fs, reg) THEN None ELSE "FileNotFoundError",
                     fs[reg.session_dir]))
    /\ UNCHANGED <<adapter, clients, tasks, reg, writers, state>>

\* registry.update(k=v)
UpdateCall(k, v) ==
    /\ reg # NoRegistry
    /\ LET kwargs == [x \in {k} |-> v]
       IN  /\ fs' = IF CanWrite(fs, reg)
                    THEN RegistryUpdate(fs, reg, kwargs)
                    ELSE fs
           /\ regcall' = (MethodCall("update", kwargs, None,
                     IF CanWrite(fs, reg) THEN None ELSE "FileNotFoundError",
                     fs[reg.session_dir]))
    /\ sent' = [sent EXCEPT ![reg.phone_number] = None]
    /\ UNCHANGED <<adapter, clients, tasks, reg, writers, state>>

\* Mutant: clear() reports True whether or not a file was there.
ClearReturns_AlwaysTrue(f, r) == TRUE

\* SessionRegistry.clear: the value returned.
ClearReturns(f, r) == RegistryExists(f, r)

\* registry.clear()
ClearCall ==
    /\ reg # NoRegistry
    /\ fs' = RegistryClear(fs, reg)
    /\ sent' = [sent EXCEPT ![reg.phone_number] = None]
    /\ regcall' = (MethodCall("clear", None, ClearReturns(fs, reg),
                                    None, fs[reg.session_dir]))
    /\ UNCHANGED <<adapter, clients, tasks, reg, writers, state>>

---------------------------------------------------------------------------
(* Operations invoked one at a time *)

CallOp == \E t \in SeqTasks, op \in Ops, p \in Phones :
              NoneRunning /\ Call(t, op, p)

StepOp == \E t \in TaskIds : Step(t)

RegistryOp ==
    /\ NoneRunning
    /\ \/ \E p \in Phones : NewRegistry(p)
       \/ \E overwrite \in BOOLEAN : GetOrCreateCall(overwrite)
       \/ \E data \in Records : WriteCall(data)
       \/ \E k \in Keys : \E v \in KeyValues(k) : UpdateCall(k, v)
       \/ ClearCall

Next == CallOp \/ StepOp \/ RegistryOp \/ NewAdapter

Spec == Init /\ [][Next]_vars

---------------------------------------------------------------------------
(* Two processes using the registry of a phone number concurrently.  Each
   has its own SessionRegistry object; a step is one file-system call. *)

\* registry = SessionRegistry(phone_number), first half of
\* get_or_create_session_path(phone_number): the rmtree when overwrite is
\* truthy and the directory exists.
WriterNew(w, phone_number) ==
    /\ writers[w].pc = "idle"
    /\ fs' = IF Truthy(phone_number) /\ IsDir(fs, Md5(phone_number))
             THEN Rmtree(fs, Md5(phone_number))
             ELSE fs
    /\ writers' = [writers EXCEPT ![w] =
           [IdleWriter EXCEPT !.pc = "makedirs",
                              !.registry = SessionRegistry(phone_number)]]
    /\ UNCHANGED <<adapter, clients, tasks, reg, sent, regcall, state>>

\* os.makedirs(session_dir, exist_ok=True), second half of the construction.
WriterMakedirs(w) ==
    /\ writers[w].pc = "makedirs"
    /\ fs' = Makedirs(fs, writers[w].registry.session_dir)
    /\ writers' = [writers EXCEPT ![w].pc = "ready"]
    /\ UNCHANGED <<adapter, clients, tasks, reg, sent, regcall, state>>

\* update(k=v), first statement: data = self.read()
WriterUpdateRead(w, k, v) ==
    /\ writers[w].pc = "ready"
    /\ writers' = [writers EXCEPT ![w] =
           [@ EXCEPT !.pc = "write",
                     !.kwargs = [x \in {k} |-> v],
                     !.data = RegistryRead(fs, writers[w].registry)]]
    /\ UNCHANGED <<fs, adapter, clients, tasks, reg, sent, regcall, state>>

\* Mutant: the write stores a fresh read of the file merged with kwargs.
UpdateWriteBack_Reread(f, r, data, kwargs) == RegistryUpdate(f, r, kwargs)

\* update(), data.update(kwargs); self.write(data): data is the
\* dictionary read by the first statement.
UpdateWriteBack(f, r, data, kwargs) ==
    RegistryWrite(f, r, DictUpdate(data, kwargs))

\* update(k=v), the write: open(registry_path, "w") raises when the
\* directory is gone.  stale records, for every other process between its
\* read and its write on the same directory, that the file changed.
WriterUpdateWrite(w) ==
    /\ writers[w].pc = "write"
    /\ IF CanWrite(fs, writers[w].registry)
       THEN /\ fs' = UpdateWriteBack(fs, writers[w].registry,
                                     writers[w].data, writers[w].kwargs)
            /\ writers' = [v \in Writers |->
                  IF v = w THEN [writers[v] EXCEPT !.pc = "done"]
                  ELSE IF /\ writers[v].pc = "write"
                          /\ writers[v].registry = writers[w].registry
                       THEN [writers[v] EXCEPT !.stale = TRUE]
                       ELSE writers[v]]
       ELSE /\ fs' = fs
            /\ writers' = [writers EXCEPT ![w] =
                  [@ EXCEPT !.pc = "done", !.raised = "FileNotFoundError"]]
    /\ UNCHANGED <<adapter, clients, tasks, reg, sent, regcall, state>>

\* Both processes have returned from update(); their objects are dropped.
WritersReturn ==
    /\ \A w \in Writers : writers[w].pc = "done"
    /\ writers' = [w \in Writers |-> IdleWriter]
    /\ UNCHANGED <<fs, adapter, clients, tasks, reg, sent, regcall, state>>

WriterStep(w) ==
    \/ \E p \in Phones : WriterNew(w, p)
    \/ WriterMakedirs(w)
    \/ \E k \in Keys : \E v \in KeyValues(k) : WriterUpdateRead(w, k, v)
    \/ WriterUpdateWrite(w)

NextWriters == (\E w \in Writers : WriterStep(w)) \/ WritersReturn

SpecWriters == Init /\ [][NextWriters]_vars

---------------------------------------------------------------------------
(* Two coroutines of one adapter object on one event loop.  A coroutine runs
   from one await to the next; the other may start or resume in between.
   self.session_path and self.client are attributes of the adapter object,
   assigned by whichever operation started last. *)

\* asyncio.create_task(adapter.<op>(phone_number, ...)): each of the two
\* coroutines runs one operation of the adapter object, so that clients[t]
\* is the one client object the operation in t constructed.
StartOp == \E t \in TaskIds, op \in Ops, p \in Phones :
               clients[t] = NoClient /\ Call(t, op, p)

NextConcurrent == StartOp \/ StepOp

SpecConcurrent == Init /\ [][NextConcurrent]_vars

---------------------------------------------------------------------------
(* InteractiveApp of telegram_cli.py: one adapter object, one menu action at
   a time, each running its operation to the end with asyncio.run.  Besides
   the two members of self.state, state records granted (the operation and
   outcome at which authenticated was last set to True) and last (the last
   operation that came back to the application). *)

\* click.prompt does not accept an empty answer, and _ensure_phone takes a
\* falsy phone for one that is not set.
AppPhones == {p \in Phones : Truthy(p)}

\* set_phone: self.state["phone"] = phone
SetPhone(phone) ==
    /\ NoneRunning
    /\ state' = [state EXCEPT !.phone = phone]
    /\ UNCHANGED <<fs, adapter, clients, tasks, reg, sent, regcall, writers>>

\* A menu action: phone = self._ensure_phone(); asyncio.run(run()), up to
\* the first await of self.adapter.<op>(phone, ...).
MenuAction(t, op) ==
    /\ NoneRunning
    /\ state.phone # None
    /\ Call(t, op, state.phone)

\* The rest of run() in each menu action: except Exception only echoes;
\* after a return, validate_code and validate_password set
\* self.state["authenticated"] = True and invalidate_session sets it False.
AfterRun(st, op, outcome) ==
    LET run == [op |-> op, outcome |-> outcome]
    IN  IF outcome.kind = "raise"
        THEN [st EXCEPT !.last = run]
        ELSE IF op \in {"validate_code_and_fetch_user_info",
                        "validate_password_and_fetch_user_info"}
        THEN [st EXCEPT !.authenticated = TRUE, !.granted = run,
                        !.last = run]
        ELSE IF op = "invalidate_session"
        THEN [st EXCEPT !.authenticated = FALSE, !.granted = NoRun,
                        !.last = run]
        ELSE [st EXCEPT !.last = run]

\* The adapter operation has ended and run() continues in the application.
MenuReturn(t) ==
    /\ tasks[t].pc = "done"
    /\ state' = AfterRun(state, tasks[t].op, tasks[t].outcome)
    /\ tasks' = [tasks EXCEPT ![t] = IdleTask]
    /\ UNCHANGED <<fs, adapter, clients, reg, sent, regcall, writers>>

NextInteractive ==
    \/ \E phone \in AppPhones : SetPhone(phone)
    \/ \E t \in SeqTasks, op \in Ops : MenuAction(t, op)
    \/ \E t \in SeqTasks : Resume(t)
    \/ \E t \in SeqTasks : MenuReturn(t)

SpecInteractive == Init /\ [][NextInteractive]_vars

---------------------------------------------------------------------------
(* Properties *)

SendCode == "send_authorization_code"
ValidateCode == "validate_code_and_fetch_user_info"
ValidatePassword == "validate_password_and_fetch_user_info"
Invalidate == "invalidate_session"

\* The operation of task t has returned or raised.
Ended(t) == tasks[t].pc = "done"

\* C1: when send_authorization_code(p) stored token t and nothing touched p
\* since, validate_code_and_fetch_user_info(p, code) reads t from the
\* registry and gives t to sign_in as phone_code_hash.
C1_TokenContinuity ==
    \A t \in TaskIds :
        (tasks[t].op = ValidateCode /\ tasks[t].pre_sent # None)
        => /\ tasks[t].phone_code_hash = tasks[t].pre_sent
           /\ tasks[t].signin_hash \in {Unset, tasks[t].pre_sent}

\* C2: every operation other than send_authorization_code opens its client
\* on the session file that existed before the operation started.
C2_SessionArtifactReuse ==
    \A t \in TaskIds :
        (/\ Running(t)
         /\ tasks[t].op # SendCode
         /\ tasks[t].pre.session # NoFile)
        => tasks[t].found = tasks[t].pre.session

\* C3: when p has an authorized session and no external call fails,
\* send_authorization_code(p) returns "User is already authorized." and
\* requests no code.
C3_AlreadyAuthorizedSession ==
    \A t \in TaskIds :
        (/\ Ended(t)
         /\ tasks[t].op = SendCode
         /\ tasks[t].pre.session = "authorized"
         /\ tasks[t].error = None)
        => /\ tasks[t].outcome = Return(AlreadyAuthorized)
           /\ ~tasks[t].code_requested

\* C4: after a second successful send_authorization_code on the same phone
\* number, read() is exactly {phone_code_hash: the second call's token}.
C4_SecondSendCodeDiscardsFirst ==
    \A t \in TaskIds :
        (/\ Ended(t)
         /\ tasks[t].op = SendCode
         /\ tasks[t].pre_sent # None
         /\ tasks[t].outcome = Return(CodeSent))
        => RegistryRead(fs, tasks[t].registry)
             = [k \in {"phone_code_hash"} |-> tasks[t].result]

\* A second successful send-code whose token differs from the first one's.
C4_Witness ==
    \E t \in TaskIds :
        /\ Ended(t)
        /\ tasks[t].op = SendCode
        /\ tasks[t].pre_sent # None
        /\ tasks[t].outcome = Return(CodeSent)
        /\ tasks[t].result # tasks[t].pre_sent

\* C5: when the service answers that the user is authorized,
\* send_authorization_code returns {success: false, "User is already
\* authorized."}, requests no code, and leaves no registry file.
C5_AlreadyAuthorizedAnswer ==
    \A t \in TaskIds :
        (Ended(t) /\ tasks[t].op = SendCode /\ tasks[t].answer = "True")
        => /\ tasks[t].outcome = Return(AlreadyAuthorized)
           /\ ~tasks[t].code_requested
           /\ ~RegistryExists(fs, tasks[t].registry)

\* The service answered "authorized" on a phone number that had a registry
\* file before the call.
C5_Witness ==
    \E t \in TaskIds :
        /\ Ended(t)
        /\ tasks[t].op = SendCode
        /\ tasks[t].answer = "True"
        /\ tasks[t].pre.registry # <<>>

\* C6: when validate_code_and_fetch_user_info ends without an external call
\* having raised, it returns two_step_verification_enabled = false with the
\* fetched profile's name, and the registry file does not exist.
C6_ValidateCodeSuccess ==
    \A t \in TaskIds :
        (Ended(t) /\ tasks[t].op = ValidateCode /\ tasks[t].error = None)
        => /\ tasks[t].result \in Names
           /\ tasks[t].outcome = Return(
                 [two_step_verification_enabled |-> FALSE,
                  userinfo |-> [account_identifier |-> tasks[t].phone_number,
                                name |-> tasks[t].result]])
           /\ ~RegistryExists(fs, tasks[t].registry)

\* A successful validate-code that had read a token from the registry file.
C6_Witness ==
    \E t \in TaskIds :
        /\ Ended(t)
        /\ tasks[t].op = ValidateCode
        /\ tasks[t].error = None
        /\ tasks[t].phone_code_hash # None

\* C7: when validate_code_and_fetch_user_info ends with the second-factor
\* outcome, the phone_code_hash stored by the preceding send-code is still
\* in the registry.
C7_SecondFactorKeepsRegistry ==
    \A t \in TaskIds :
        (/\ Ended(t)
         /\ tasks[t].op = ValidateCode
         /\ tasks[t].error = SessionPasswordNeededError
         /\ tasks[t].pre_sent # None)
        => DictGet(RegistryRead(fs, tasks[t].registry), "phone_code_hash")
             = tasks[t].pre_sent

\* C8: when sign_in raises SessionPasswordNeededError in
\* validate_code_and_fetch_user_info, the operation returns
\* two_step_verification_enabled = true, the phone number and name = None.
C8_SecondFactorResult ==
    \A t \in TaskIds :
        (/\ Ended(t)
         /\ tasks[t].op = ValidateCode
         /\ tasks[t].error = SessionPasswordNeededError)
        => tasks[t].outcome = Return(
               [two_step_verification_enabled |-> TRUE,
                userinfo |-> [account_identifier |-> tasks[t].phone_number,
                              name |-> None]])

C8_Witness ==
    \E t \in TaskIds :
        /\ Ended(t)
        /\ tasks[t].op = ValidateCode
        /\ tasks[t].error = SessionPasswordNeededError
        /\ tasks[t].outcome.kind = "return"

\* C9: validate_password_and_fetch_user_info returns the user info and
\* leaves no registry file when no external call raised; otherwise the error
\* reaches the caller and registry.clear() was not run.
C9_ValidatePassword ==
    \A t \in TaskIds :
        (Ended(t) /\ tasks[t].op = ValidatePassword)
        => IF tasks[t].error = None
           THEN /\ tasks[t].result \in Names
                /\ tasks[t].outcome = Return(
                      [userinfo |-> [account_identifier |->
                                         tasks[t].phone_number,
                                     name |-> tasks[t].result]])
                /\ ~RegistryExists(fs, tasks[t].registry)
           ELSE /\ tasks[t].outcome = Raise(tasks[t].error)
                /\ ~tasks[t].cleared

\* A successful validate-password that found a registry file to clear.
C9_Witness ==
    \E t \in TaskIds :
        /\ Ended(t)
        /\ tasks[t].op = ValidatePassword
        /\ tasks[t].error = None
        /\ tasks[t].phone_code_hash # None

\* C10: after invalidate_session(p) returned true, the session directory of
\* p does not exist and read() is the empty mapping.
C10_InvalidateRemovesDirectory ==
    \A t \in TaskIds :
        (/\ Ended(t)
         /\ tasks[t].op = Invalidate
         /\ tasks[t].outcome.kind = "return")
        => /\ tasks[t].outcome.value = TRUE
           /\ ~IsDir(fs, Md5(tasks[t].phone_number))
           /\ RegistryRead(fs, tasks[t].registry) = EmptyDict

\* invalidate_session returned true on a directory that held an authorized
\* session file and a registry file.
C10_Witness ==
    \E t \in TaskIds :
        /\ Ended(t)
        /\ tasks[t].op = Invalidate
        /\ tasks[t].outcome.kind = "return"
        /\ tasks[t].pre.session = "authorized"
        /\ tasks[t].pre.registry # <<>>

SendMsg == "send_message"

\* C11: when an operation invoked on its own has returned or raised, the
\* client it opened is disconnected, and no client is connected while no
\* operation runs.
C11_GuaranteedDisconnect ==
    \A t \in TaskIds :
        tasks[t].pc \in {"idle", "done"} => ~clients[t].connected

\* An operation whose connect() succeeded and whose next external call
\* raised has ended.
C11_Witness ==
    \E t \in TaskIds :
        /\ Ended(t)
        /\ tasks[t].error # None
        /\ tasks[t].failed_at \notin {None, "connect"}

\* C12: an error raised by an external call reaches the caller as that
\* error, except SessionPasswordNeededError in
\* validate_code_and_fetch_user_info.
C12_OnlySecondFactorConverted ==
    \A t \in TaskIds :
        (/\ Ended(t)
         /\ tasks[t].error # None
         /\ ~(/\ tasks[t].op = ValidateCode
              /\ tasks[t].error = SessionPasswordNeededError))
        => /\ tasks[t].outcome.kind = "raise"
           /\ tasks[t].outcome.value = tasks[t].error

\* SessionPasswordNeededError raised by sign_in in validate-password has
\* reached the caller.
C12_Witness ==
    \E t \in TaskIds :
        /\ Ended(t)
        /\ tasks[t].op = ValidatePassword
        /\ tasks[t].error = SessionPasswordNeededError
        /\ tasks[t].outcome.kind = "raise"

\* The phone numbers a step acts on: that of the coroutine that moved, or
\* that of reg when a SessionRegistry method was called.
ActsOn(q) ==
    \/ \E t \in TaskIds :
          /\ tasks'[t] # tasks[t]
          /\ q \in {tasks[t].phone_number, tasks'[t].phone_number}
    \/ tasks' = tasks /\ writers' = writers /\ reg'.phone_number = q

\* C13: a step of an operation on phone number p leaves the session
\* directory of every other phone number as it was.
C13_PerPhoneIsolation ==
    [][\A q \in Phones :
          fs'[Md5(q)] # fs[Md5(q)] => ActsOn(q)]_vars

\* invalidate_session returned true while the other phone number's
\* directory holds an authorized session file and a registry file.
C13_Witness ==
    \E t \in TaskIds : \E q \in Phones :
        /\ Ended(t)
        /\ tasks[t].op = Invalidate
        /\ tasks[t].outcome.kind = "return"
        /\ q # tasks[t].phone_number
        /\ fs[Md5(q)].session = "authorized"
        /\ fs[Md5(q)].registry # <<>>

\* The sessions tree as it was before the last method call on reg.
PreTree == [fs EXCEPT ![reg.session_dir] = regcall.pre]

\* C14: right after write(r), read() returns r, whatever was stored before.
C14_WriteReadRoundTrip ==
    (regcall.op = "write" /\ regcall.raised = None)
    => RegistryRead(fs, reg) = regcall.arg

\* write(r) replaced a stored record that had a key r does not have.
C14_Witness ==
    /\ regcall.op = "write"
    /\ regcall.raised = None
    /\ RegistryExists(PreTree, reg)
    /\ \E k \in DOMAIN RegistryRead(PreTree, reg) : k \notin DOMAIN regcall.arg

\* C15: right after update(fields), read() is the previous read() with every
\* key of fields set to its new value and the other keys unchanged; when no
\* record existed the file is the one write(fields) leaves.
C15_UpdateShallowMerge ==
    (regcall.op = "update" /\ regcall.raised = None)
    => LET before == RegistryRead(PreTree, reg)
           fields == regcall.arg
           after == RegistryRead(fs, reg)
       IN  /\ DOMAIN after = (DOMAIN before) \cup (DOMAIN fields)
           /\ \A k \in DOMAIN fields : after[k] = fields[k]
           /\ \A k \in (DOMAIN before) \ (DOMAIN fields) : after[k] = before[k]
           /\ ~RegistryExists(PreTree, reg)
                => fs[reg.session_dir].registry = <<JsonDump(fields)>>

\* update() changed the value of a stored key and kept another stored key.
C15_Witness ==
    /\ regcall.op = "update"
    /\ regcall.raised = None
    /\ LET before == RegistryRead(PreTree, reg)
       IN  /\ \E k \in DOMAIN regcall.arg :
                k \in DOMAIN before /\ before[k] # regcall.arg[k]
           /\ \E k \in DOMAIN before : k \notin DOMAIN regcall.arg

\* C16: clear() returns True exactly when a record file existed; after it a
\* further clear() returns False and read() returns the empty mapping.
C16_ClearIdempotent ==
    regcall.op = "clear"
    => /\ regcall.ret = RegistryExists(PreTree, reg)
       /\ ClearReturns(fs, reg) = FALSE
       /\ ~RegistryExists(fs, reg)
       /\ RegistryRead(fs, reg) = EmptyDict

\* clear() deleted a record file and returned True.
C16_Witness ==
    /\ regcall.op = "clear"
    /\ regcall.ret = TRUE
    /\ RegistryRead(PreTree, reg) # EmptyDict

\* C17: get_or_create_session_path(overwrite) returns the directory of the
\* phone number, which exists on return; with overwrite true an existing
\* directory is empty on return, with overwrite false its contents are
\* unchanged.
C17_GetOrCreateSessionPath ==
    regcall.op = "get_or_create_session_path"
    => /\ regcall.ret = reg.session_dir
       /\ IsDir(fs, regcall.ret)
       /\ (regcall.arg /\ regcall.pre.isdir)
            => /\ fs[regcall.ret].session = NoFile
               /\ fs[regcall.ret].registry = <<>>
       /\ (~regcall.arg /\ regcall.pre.isdir)
            => fs[regcall.ret] = regcall.pre

\* get_or_create_session_path(True) on a directory that held a session file
\* and a registry file.
C17_Witness ==
    /\ regcall.op = "get_or_create_session_path"
    /\ regcall.arg
    /\ regcall.pre.session # NoFile
    /\ regcall.pre.registry # <<>>

\* C18: send_message leaves the registry file and the session file of its
\* phone number as they were before the call.
C18_SendMessageStateless ==
    \A t \in TaskIds :
        (Running(t) /\ tasks[t].op = SendMsg /\ tasks[t].pre.isdir)
        => LET dir == fs[tasks[t].registry.session_dir]
           IN  /\ dir.registry = tasks[t].pre.registry
               /\ tasks[t].pre.session # NoFile
                    => dir.session = tasks[t].pre.session

C20_UpdateNotAtomic ==
    [][\A w \in Writers :
          (/\ writers[w].pc = "write"
           /\ writers'[w].pc = "done"
           /\ writers'[w].raised = None)
          => LET r == writers[w].registry
                 mine == (DOMAIN writers[w].data) \cup (DOMAIN writers[w].kwargs)
             IN  /\ RegistryRead(fs', r)
                      = DictUpdate(writers[w].data, writers[w].kwargs)
                 /\ \A k \in DOMAIN RegistryRead(fs, r) :
                      k \notin mine => k \notin DOMAIN RegistryRead(fs', r)]_vars

\* A lost update: two processes called update() with different keys on the
\* same phone number, neither got an error, w wrote last with a read made
\* before the other's write, and the record holds only w's key.
C20_Witness ==
    \E w \in Writers : \E v \in Writers \ {w} :
        /\ writers[w].pc = "done" /\ writers[v].pc = "done"
        /\ writers[w].raised = None /\ writers[v].raised = None
        /\ writers[w].registry = writers[v].registry
        /\ DOMAIN writers[w].kwargs # DOMAIN writers[v].kwargs
        /\ writers[w].stale
        /\ ~writers[v].stale
        /\ RegistryRead(fs, writers[w].registry) = writers[w].kwargs

\* C21: the directory invalidate_session(p) removes is the session
\* directory of p, also while another operation of the same adapter object
\* runs for a different phone number.
C21_InvalidateRemovesOwnDirectory ==
    \A t \in TaskIds :
        (tasks[t].op = Invalidate /\ tasks[t].removed # None)
        => tasks[t].removed = tasks[t].registry.session_dir

\* C22: every external call of an operation, its final disconnect included,
\* is issued on the client the operation constructed, and once no operation
\* is running no client is left connected.
C22_OwnClientUsedAndDisconnected ==
    /\ \A t \in TaskIds : Running(t) => tasks[t].target = t
    /\ (\A t \in TaskIds : tasks[t].pc \in {"idle", "done"})
       => \A t \in TaskIds : ~clients[t].connected

\* The handshake was completed by the run: validate-code returned with
\* two_step_verification_enabled false, or validate-password returned.
HandshakeCompleted(run) ==
    /\ run.outcome.kind = "return"
    /\ \/ run.op = ValidatePassword
       \/ /\ run.op = ValidateCode
          /\ ~run.outcome.value.two_step_verification_enabled

\* C23: in the interactive application authenticated is true only when it
\* was set at a completed handshake, and it is false when the last
\* operation was an invalidate-session that returned.
C23_AuthenticatedFlag ==
    /\ state.authenticated => HandshakeCompleted(state.granted)
    /\ (state.last.op = Invalidate /\ state.last.outcome.kind = "return")
       => ~state.authenticated

====
